---- MODULE Spec2Model ----
(***************************************************************************)
(* VibeFlow: the edit classifier, the metrics, the two flow scorers and    *)
(* the low-flow nudge of src/extension.js (the shipped extension, called   *)
(* the "simple" variant here) and of the implementation listed in          *)
(* src/README.md (the "windowed" variant, with an activity window and a    *)
(* one-second timer).                                                      *)
(*                                                                         *)
(* Time is in milliseconds, as Date.now() gives it.  One handler runs to   *)
(* completion at one instant: every Date.now() it reads is `now`.          *)
(* JavaScript numbers are modelled by exact fractions <<n, d>>, d > 0.     *)
(***************************************************************************)
EXTENDS Integers, Sequences, FiniteSets, TLC

VARIABLES
  variant,      \* "simple" (src/extension.js) or "windowed" (src/README.md)
  phase,        \* "loading" until activate() has run its last statement
  now,          \* the clock, Date.now()
  quota,        \* what the environment may still do, see Session
  metrics,      \* the runtime metrics object
  lastUpdate,   \* timestamp of the last evaluation of updateStatus
  history,      \* FlowSamples {ts, flow}
  events,       \* the event log
  assistMode,   \* the assist toggle
  activity,     \* the activity window (windowed variant only)
  prompts,      \* number of nudge prompts shown and not yet answered
  toggling,     \* vibeflow.toggleAssist calls waiting on globalState.update
  timerDue,     \* when flowInterval fires next; not armed when there is none
  input,        \* the notification the last step delivered (history variable)
  evalLog,      \* one entry per evaluation of updateStatus (history variable)
  probe,        \* inputs and result of a direct call of computeFlow
  moods,        \* MoodEntries {ts, mood}
  picking,      \* vibeflow.reportMood calls waiting on showQuickPick
  recording,    \* the moods picked whose call waits on globalState.update
  exporting,    \* vibeflow.exportLogs calls waiting on the dialog and the write
  errors,       \* error messages shown to the user
  escaped       \* rejections that left a command handler uncaught

\* what the mood and export commands write
shellVars == <<moods, picking, recording, exporting, errors, escaped>>

vars == <<variant, phase, now, quota, metrics, lastUpdate, history, events,
          assistMode, activity, prompts, toggling, timerDue, input, evalLog,
          probe, shellVars>>

(***************************************************************************)
(* Program constants                                                       *)
(***************************************************************************)
HISTORY_CAP == 20000
THROTTLE_MS == 1000
TICK_MS == 1000
BLUR_IDLE_MS == 120000
AI_SIZE == 40
NUDGE_AFTER == 5
HIGH_FLOW == 70
MID_FLOW_SIMPLE == 40
MID_FLOW_WINDOWED == 45
IDLE_SCALE_SEC == 300
WINDOW_MS == 60000
ACTIVITY_KEEP_MS == 300000
KEY_CAP == 50
SIZE_CAP == 20
IDLE_CAP == 50
GAP_LIMIT_MS == 10000

(***************************************************************************)
(* Bounds of the model                                                     *)
(***************************************************************************)
T0 == 400000        \* the clock at activation
MaxTime == 5000     \* the longest session lasts this many milliseconds
MaxEdits == 2       \* edit notifications delivered in a session
MaxBatch == 2       \* sub-changes carried by one edit notification
MaxFocus == 5       \* focus notifications delivered in a session
MaxCmds == 1        \* commands run in a session
MaxUi == 2          \* mood and export commands run in a session
RandDen == 10       \* Math.random() is drawn as k / RandDen, k in 0..RandDen-1

Variants == {"simple", "windowed"}

(***************************************************************************)
(* Exact arithmetic on fractions                                           *)
(***************************************************************************)
Max(a, b) == IF a >= b THEN a ELSE b
Min(a, b) == IF a <= b THEN a ELSE b

RECURSIVE GCD(_, _)
GCD(a, b) == IF b = 0 THEN a ELSE GCD(b, a % b)

LCM(a, b) == (a \div GCD(a, b)) * b

\* Math.min / Math.max on fractions with positive denominators
FMin(x, y) == IF x[1] * y[2] <= y[1] * x[2] THEN x ELSE y
FMax(x, y) == IF x[1] * y[2] >= y[1] * x[2] THEN x ELSE y
FLess(x, y) == x[1] * y[2] < y[1] * x[2]
FScale(x, k) == <<x[1] * k, x[2]>>
FNeg(x) == <<-x[1], x[2]>>
FInt(k) == <<k, 1>>

RECURSIVE CommonDen(_)
CommonDen(terms) ==
  IF terms = <<>> THEN 1 ELSE LCM(Head(terms)[2], CommonDen(Tail(terms)))

RECURSIVE SumWhole(_)
SumWhole(terms) ==
  IF terms = <<>> THEN 0
  ELSE (Head(terms)[1] \div Head(terms)[2]) + SumWhole(Tail(terms))

RECURSIVE SumRest(_, _)
SumRest(terms, q) ==
  IF terms = <<>> THEN 0
  ELSE (Head(terms)[1] % Head(terms)[2]) * (q \div Head(terms)[2])
       + SumRest(Tail(terms), q)

\* Math.floor of the sum of the fractions in terms
FloorSum(terms) ==
  LET q == CommonDen(terms)
  IN  SumWhole(terms) + (SumRest(terms, q) \div q)

\* Math.round of the sum of the fractions in terms: floor(x + 1/2)
RoundSum(terms) == FloorSum(Append(terms, <<1, 2>>))

\* (mutant: the lower bound forgotten)
ClampUpperOnly(x) == Min(100, x)

\* Math.max(0, Math.min(100, x))
Clamp(x) == Max(0, Min(100, x))

(***************************************************************************)
(* computeFlow, src/extension.js                                           *)
(***************************************************************************)
\* Math.floor(Math.random() * 10 - 5), Math.random() = k / RandDen
JitterSimple(k) == FloorSum(<<<<10 * k, RandDen>>, FInt(-5)>>)

RawSimple(m, t, k) ==
  LET total == Max(1, m.totalInsertions)
      acceptRate == FMin(FInt(1), <<m.aiInsertions, total>>)
      rejectPenalty ==
        FMin(FInt(1), <<m.aiRejections, m.aiInsertions + m.aiRejections + 1>>)
      undoRate == FMin(FInt(1), <<m.undoCount, total>>)
      idleMs == t - m.lastChangeTs
      idleFactor == FMin(FInt(1), <<idleMs, 1000 * IDLE_SCALE_SEC>>)
  IN  << FInt(30),
         FScale(acceptRate, 50),
         FNeg(FScale(undoRate, 10)),
         FNeg(FScale(idleFactor, 10)),
         FNeg(FScale(rejectPenalty, 5)),
         FInt(JitterSimple(k)) >>

computeFlowSimple(m, t, k) == Clamp(RoundSum(RawSimple(m, t, k)))

(***************************************************************************)
(* computeFlow, src/README.md                                              *)
(***************************************************************************)
\* Math.floor(Math.random() * 6 - 3), Math.random() = k / RandDen
JitterWindowed(k) == FloorSum(<<<<6 * k, RandDen>>, FInt(-3)>>)

\* activity.filter(a => now - a.ts < windowSize)
Recent(act, t) == SelectSeq(act, LAMBDA a : t - a.ts < WINDOW_MS)

\* the numerator, over WINDOW_MS, of the sum of weight * Math.min(a.size || 1, 20)
RECURSIVE KeystrokeSum(_, _)
KeystrokeSum(recent, t) ==
  IF recent = <<>> THEN 0
  ELSE LET a == Head(recent)
           size == IF a.size = 0 THEN 1 ELSE a.size
       IN  Max(0, WINDOW_MS - (t - a.ts)) * Min(size, SIZE_CAP)
           + KeystrokeSum(Tail(recent), t)

keystrokeScore(recent, t) ==
  FMin(<<KeystrokeSum(recent, t), WINDOW_MS>>, FInt(KEY_CAP))

\* gaps.reduce(...) / gaps.length, 0 for no gap: gaps[0] = 0 and the others
\* are the differences of neighbours, so their sum is last.ts - first.ts
avgGap(recent) ==
  IF recent = <<>> THEN FInt(0)
  ELSE <<recent[Len(recent)].ts - recent[1].ts, Len(recent)>>

rhythmBonus(recent) ==
  LET g == avgGap(recent)
  IN  IF FLess(g, FInt(GAP_LIMIT_MS))
      THEN FMax(FInt(0), <<20 * 1000 * g[2] - g[1], 1000 * g[2]>>)
      ELSE FInt(0)

\* recent.at(-1)?.ts || metrics.lastChangeTs || 0
lastActivity(recent, m) ==
  IF recent # <<>> /\ recent[Len(recent)].ts # 0 THEN recent[Len(recent)].ts
  ELSE IF m.lastChangeTs # 0 THEN m.lastChangeTs
  ELSE 0

idleDecay(recent, m, t) ==
  FMin(FInt(IDLE_CAP), <<t - lastActivity(recent, m), 1000>>)

metricScore(m) ==
  LET total == Max(1, m.totalInsertions)
      aiAcceptRate == FMin(FInt(1), <<m.aiInsertions, total>>)
      undoPenalty == FMin(FInt(1), <<m.undoCount, total>>)
  IN  <<FInt(30), FScale(aiAcceptRate, 30), FNeg(FScale(undoPenalty, 10))>>

RawWindowed(m, act, t, k) ==
  LET recent == Recent(act, t)
  IN  << keystrokeScore(recent, t),
         rhythmBonus(recent),
         FNeg(idleDecay(recent, m, t)) >>
      \o metricScore(m)
      \o << FInt(JitterWindowed(k)) >>

computeFlowWindowed(m, act, t, k) == Clamp(RoundSum(RawWindowed(m, act, t, k)))

\* the idle time, in ms, that computeFlow of variant v works with:
\* Date.now() - metrics.lastChangeTs in src/extension.js, now - lastActivity in
\* src/README.md
idleTime(v, m, act, t) ==
  IF v = "simple" THEN t - m.lastChangeTs
  ELSE t - lastActivity(Recent(act, t), m)

\* computeFlow of the running variant
computeFlow(v, m, act, t, k) ==
  IF v = "simple" THEN computeFlowSimple(m, t, k)
  ELSE computeFlowWindowed(m, act, t, k)

(***************************************************************************)
(* The state after the declarations of activate()                          *)
(***************************************************************************)
NewMetrics(t) ==
  [ lastChangeTs |-> t, totalInsertions |-> 0, totalDeletions |-> 0,
    aiInsertions |-> 0, aiRejections |-> 0, undoCount |-> 0,
    consecutiveLow |-> 0 ]

NoProbe == [called |-> FALSE]

\* persisted is what globalState holds: [history, moods, events, assist]
Loaded(v, persisted, q) ==
  /\ variant = v
  /\ phase = "loading"
  /\ now = T0
  /\ quota = q
  /\ metrics = NewMetrics(T0)
  /\ lastUpdate = 0
  /\ history = persisted.history
  /\ events = persisted.events
  /\ assistMode = persisted.assist
  /\ activity = <<>>
  /\ prompts = 0
  /\ toggling = 0
  /\ timerDue = [armed |-> FALSE, due |-> 0]
  /\ input = <<>>
  /\ evalLog = <<>>
  /\ probe = NoProbe
  /\ moods = persisted.moods
  /\ picking = 0
  /\ recording = <<>>
  /\ exporting = 0
  /\ errors = 0
  /\ escaped = 0

\* a sub-change: its text (absent, or a string of len characters that holds a
\* newline or not) and its rangeLength (absent, or a number)
Text(len, nl) == [present |-> TRUE, len |-> len, nl |-> nl]
NoText == [present |-> FALSE, len |-> 0, nl |-> FALSE]
Range(len) == [present |-> TRUE, len |-> len]
NoRange == [present |-> FALSE, len |-> 0]
Change(text, range) == [text |-> text, rangeLength |-> range]

\* the sub-changes the editor delivers in this model
Changes ==
  { Change(Text(10, FALSE), Range(0)),     \* typing
    Change(Text(AI_SIZE, FALSE), Range(0)),
    Change(Text(AI_SIZE + 1, FALSE), Range(0)),
    Change(Text(5, TRUE), Range(0)),       \* a short text with a line break
    Change(Text(0, FALSE), Range(3)),      \* deleting
    Change(Text(10, FALSE), Range(3)),     \* replacing
    Change(Text(AI_SIZE + 1, FALSE), Range(3)),
    Change(Text(0, FALSE), Range(0)),      \* nothing inserted, nothing removed
    Change(NoText, NoRange) }              \* a change without text and range

\* sub-changes with a part missing, and the one that has both and changes
\* nothing
Partial ==
  { Change(NoText, NoRange),
    Change(NoText, Range(3)),
    Change(Text(10, FALSE), NoRange),
    Change(Text(0, FALSE), Range(0)) }

\* replacements: a few characters, 40, 41, a short text with a line break
Replaced ==
  { Change(Text(10, FALSE), Range(3)),
    Change(Text(AI_SIZE, FALSE), Range(3)),
    Change(Text(AI_SIZE + 1, FALSE), Range(3)),
    Change(Text(5, TRUE), Range(3)) }

\* the Enter key: a line break alone
Enter == { Change(Text(1, TRUE), Range(0)) }

\* a deletion alone
Deletion == { Change(Text(0, FALSE), Range(3)) }

\* the sub-changes of plain typing: a few characters, a paste, a line break,
\* a deletion
Typed ==
  { Change(Text(10, FALSE), Range(0)),
    Change(Text(AI_SIZE + 1, FALSE), Range(0)),
    Change(Text(5, TRUE), Range(0)),
    Change(Text(0, FALSE), Range(3)) }

\* what the environment does in a session: so many edit notifications of up to
\* batch sub-changes drawn from changes, so many focus notifications, so many
\* toggleAssist and logAIReject commands, so many reportMood and exportLogs
\* commands, the values k of Math.random() = k / RandDen drawn by the
\* evaluations, until the clock shows `until`, the clock read every `step`
\* milliseconds
Session(e, b, changes, f, c, u, draws, ms, step) ==
  [ edits |-> e, batch |-> b, changes |-> changes, focus |-> f, cmds |-> c,
    ui |-> u, draws |-> draws, until |-> T0 + ms, step |-> step ]

\* an absence during which the host is suspended: no timer fires until the
\* clock is read again, half the activity window and the kept activity later
AwayMs == (ACTIVITY_KEEP_MS + WINDOW_MS) \div 2

\* Math.random() draws: the lowest and the highest, or the lowest alone
RandDraws == {0, RandDen - 1}
LowDraw == {0}

\* the sessions followed: typing, one batched edit of any sub-changes, a long
\* idle session, a long idle session with one command, a short mix, a short
\* session of moods and exports, one batched edit of sub-changes with missing
\* parts, typing around two long absences, a longer idle session with one
\* deletion, one batched edit of replacements, line breaks typed
Sessions ==
  { Session(MaxEdits, 1, Typed, 0, 0, 0, RandDraws, THROTTLE_MS, THROTTLE_MS \div 2),
    Session(1, MaxBatch, Changes, 0, 0, 0, RandDraws, THROTTLE_MS, THROTTLE_MS \div 2),
    Session(0, 0, {}, MaxFocus, 0, 0, LowDraw, MaxTime, TICK_MS),
    Session(0, 0, {}, 1, 1, 0, LowDraw, MaxTime + 2 * TICK_MS, TICK_MS),
    Session(1, 1, Typed, 1, MaxCmds, 0, LowDraw, THROTTLE_MS, THROTTLE_MS),
    Session(0, 0, {}, 0, 0, MaxUi, LowDraw, THROTTLE_MS, THROTTLE_MS),
    Session(1, MaxBatch, Partial, 0, 0, 0, RandDraws, THROTTLE_MS, THROTTLE_MS),
    Session(MaxEdits, 1, Typed, 0, 0, 0, LowDraw, 2 * AwayMs, AwayMs),
    Session(1, 1, Deletion, 1, 0, 0, LowDraw, 2 * MaxTime, TICK_MS),
    Session(1, MaxBatch, Replaced, 0, 0, 0, LowDraw, THROTTLE_MS, THROTTLE_MS),
    Session(MaxEdits, 1, Enter, 0, 0, 0, LowDraw, THROTTLE_MS, THROTTLE_MS) }

InitSession ==
  \E v \in Variants, a \in BOOLEAN, q \in Sessions :
    Loaded(v, [history |-> <<>>, moods |-> <<>>, events |-> <<>>, assist |-> a], q)

\* computeFlow called on its own: the metrics, the idle time and the activity
\* windows it is tried on
ProbeCounts ==
  { c \in [ totalInsertions : {0, 1, 10, 100}, aiInsertions : {0, 1, 8, 80},
            undoCount : {0, 5, 200}, aiRejections : {0, 3} ] :
      c.aiInsertions <= c.totalInsertions }

ProbeIdle == {0, 500, 30000, BLUR_IDLE_MS, ACTIVITY_KEEP_MS + WINDOW_MS}

ProbeActivity ==
  { <<>>,
    << [ts |-> T0, size |-> 5] >>,
    << [ts |-> T0 - WINDOW_MS - 10000, size |-> 41] >>,
    << [ts |-> T0 - 20000, size |-> 30], [ts |-> T0 - 1000, size |-> 10] >>,
    << [ts |-> T0 - 2000, size |-> 41], [ts |-> T0 - 1000, size |-> 41],
       [ts |-> T0, size |-> 41] >> }

InitProbe ==
  \E v \in Variants, c \in ProbeCounts, idle \in ProbeIdle, act \in ProbeActivity :
    /\ variant = v
    /\ phase = "probe"
    /\ now = T0
    /\ quota = Session(0, 0, {}, 0, 0, 0, {}, 0, TICK_MS)
    /\ metrics = [ lastChangeTs |-> T0 - idle,
                   totalInsertions |-> c.totalInsertions,
                   totalDeletions |-> 0,
                   aiInsertions |-> c.aiInsertions,
                   aiRejections |-> c.aiRejections,
                   undoCount |-> c.undoCount,
                   consecutiveLow |-> 0 ]
    /\ lastUpdate = 0
    /\ history = <<>>
    /\ events = <<>>
    /\ assistMode = FALSE
    /\ activity = (IF v = "simple" THEN <<>> ELSE act)
    /\ prompts = 0
    /\ toggling = 0
    /\ timerDue = [armed |-> FALSE, due |-> 0]
    /\ input = <<>>
    /\ evalLog = <<>>
    /\ probe = NoProbe
    /\ moods = <<>>
    /\ picking = 0
    /\ recording = <<>>
    /\ exporting = 0
    /\ errors = 0
    /\ escaped = 0

Init == InitSession \/ InitProbe

(***************************************************************************)
(* logEvent and updateStatus                                               *)
(***************************************************************************)
\* (mutant: the event put at the front of the log)
logEventFirst(evs, obj, t) == <<obj @@ [ts |-> t]>> \o evs

\* obj.ts = Date.now(); events.push(obj)
logEvent(evs, obj, t) == Append(evs, obj @@ [ts |-> t])

\* the score below which a reading is low: `flow >= 40` in src/extension.js,
\* `flow >= 45` in src/README.md
MidFlow(v) == IF v = "simple" THEN MID_FLOW_SIMPLE ELSE MID_FLOW_WINDOWED

\* metrics.consecutiveLow after the colouring of the status bar
LowAfter(v, flow, low) ==
  IF flow >= HIGH_FLOW THEN 0
  ELSE IF flow >= MidFlow(v) THEN 0
  ELSE low + 1

\* (mutant: the nudge one low reading early)
NudgeDueEarly(assist, low) == assist /\ low >= NUDGE_AFTER - 1

\* (mutant: the nudge on the fifth low reading only, not on a later one)
NudgeDueExact(assist, low) == assist /\ low = NUDGE_AFTER

\* (mutant: the assist toggle not consulted)
NudgeDueIgnoringAssist(assist, low) == low >= NUDGE_AFTER

\* if (assistMode && metrics.consecutiveLow >= 5)
NudgeDue(assist, low) == assist /\ low >= NUDGE_AFTER

\* (mutant: the newest sample dropped instead of the oldest)
PushSamplePop(h, sample) ==
  LET pushed == Append(h, sample)
  IN  IF Len(pushed) > HISTORY_CAP THEN SubSeq(pushed, 1, HISTORY_CAP) ELSE pushed

\* history.push(...); if (history.length > 20000) history.shift()
PushSample(h, sample) ==
  LET pushed == Append(h, sample)
  IN  IF Len(pushed) > HISTORY_CAP THEN Tail(pushed) ELSE pushed

\* (mutant: a throttle of half a second)
ThrottledHalf(t, last) == t - last < THROTTLE_MS \div 2

\* if (now - lastUpdate < 1000) return
Throttled(t, last) == t - last < THROTTLE_MS

\* updateStatus() called with metrics m and activity act, Math.random() = k/RandDen:
\* the new values of what it writes
updateStatus(m, act, k) ==
  IF Throttled(now, lastUpdate)
  THEN [ metrics |-> m, lastUpdate |-> lastUpdate, history |-> history,
         prompts |-> prompts, evalLog |-> evalLog ]
  ELSE LET flow == computeFlow(variant, m, act, now, k)
           low == LowAfter(variant, flow, m.consecutiveLow)
           nudge == NudgeDue(assistMode, low)
       IN  [ metrics |-> [m EXCEPT !.consecutiveLow = IF nudge THEN 0 ELSE low],
             lastUpdate |-> now,
             history |-> PushSample(history, [ts |-> now, flow |-> flow]),
             prompts |-> IF nudge THEN prompts + 1 ELSE prompts,
             evalLog |-> Append(evalLog,
                                [ ts |-> now, flow |-> flow, assist |-> assistMode,
                                  before |-> m.consecutiveLow,
                                  low |-> IF nudge THEN 0 ELSE low,
                                  nudge |-> nudge ]) ]

\* updateStatus with one of the Math.random() draws the session follows
Evaluate(m, act) ==
  \E k \in quota.draws :
    LET r == updateStatus(m, act, k)
    IN  /\ metrics' = r.metrics
        /\ lastUpdate' = r.lastUpdate
        /\ history' = r.history
        /\ prompts' = r.prompts
        /\ evalLog' = r.evalLog

\* the last statements of activate(): setInterval (src/README.md) and updateStatus()
Activate ==
  /\ phase = "loading"
  /\ phase' = "active"
  /\ timerDue' = IF variant = "windowed"
                 THEN [armed |-> TRUE, due |-> now + TICK_MS]
                 ELSE timerDue
  /\ Evaluate(metrics, activity)
  /\ UNCHANGED <<shellVars, variant, now, quota, events, assistMode, activity, toggling,
                 input, probe>>

(***************************************************************************)
(* The edit listener, onDidChangeTextDocument                              *)
(***************************************************************************)
\* (mutant: a missing text counted as one character)
insertedOfAbsentAsOne(c) ==
  IF c.text.present THEN (IF c.text.len # 0 THEN c.text.len ELSE 0) ELSE 1

\* change.text ? change.text.length : 0   (change.text?.length || 0)
insertedOf(c) == IF c.text.present /\ c.text.len # 0 THEN c.text.len ELSE 0

\* change.rangeLength || 0
removedOf(c) ==
  IF c.rangeLength.present /\ c.rangeLength.len # 0 THEN c.rangeLength.len ELSE 0

\* (mutant: the size test off by one)
looksGeneratedFromSize(c) ==
  insertedOf(c) >= AI_SIZE \/ (c.text.present /\ c.text.len # 0 /\ c.text.nl)

\* inserted > 40 || (change.text && change.text.includes("\n"))
looksGenerated(c) ==
  insertedOf(c) > AI_SIZE \/ (c.text.present /\ c.text.len # 0 /\ c.text.nl)

\* the loop body throws on sub-change c: src/README.md reads
\* change.text.includes("\n") unguarded, in the two branches with inserted > 0,
\* when inserted > 40 is false; src/extension.js tests change.text first
raises(v, c) ==
  /\ v = "windowed"
  /\ insertedOf(c) > 0
  /\ removedOf(c) >= 0
  /\ ~(insertedOf(c) > AI_SIZE)
  /\ ~c.text.present

\* src/README.md: if (inserted > 0) activity.push(...); then drop the entries at
\* the front that are older than five minutes
RECURSIVE Prune(_, _)
Prune(act, cutoff) ==
  IF act # <<>> /\ Head(act).ts < cutoff THEN Prune(Tail(act), cutoff) ELSE act

Track(v, act, c, t) ==
  IF v = "simple" THEN act
  ELSE Prune(IF insertedOf(c) > 0
             THEN Append(act, [ts |-> t, size |-> insertedOf(c)])
             ELSE act,
             t - ACTIVITY_KEEP_MS)

\* (mutant: an insertion taken as generated not added to totalInsertions)
insertionMetricsApart(m, inserted, generated) ==
  [m EXCEPT !.totalInsertions = IF generated THEN @ ELSE @ + inserted,
            !.aiInsertions = IF generated THEN @ + 1 ELSE @]

\* the counters written by the three branches of the loop body
insertionMetrics(m, inserted, generated) ==
  [m EXCEPT !.totalInsertions = @ + inserted,
            !.aiInsertions = IF generated THEN @ + 1 ELSE @]

\* (mutant: a deletion not counted as an undo)
deletionMetricsNoUndo(m, removed) ==
  [m EXCEPT !.totalDeletions = @ + removed]

\* (mutant: undoCount grows by the removed length)
deletionMetricsBySize(m, removed) ==
  [m EXCEPT !.totalDeletions = @ + removed, !.undoCount = @ + removed]

\* metrics.totalDeletions += removed; metrics.undoCount++
deletionMetrics(m, removed) ==
  [m EXCEPT !.totalDeletions = @ + removed, !.undoCount = @ + 1]

\* (mutant: a replacement counted as an undo)
replacementMetricsUndo(m, inserted, removed, generated) ==
  [m EXCEPT !.totalInsertions = @ + inserted,
            !.totalDeletions = @ + removed,
            !.undoCount = @ + 1,
            !.aiInsertions = IF generated THEN @ + 1 ELSE @]

\* (mutant: a replacement takes the removed characters off totalDeletions)
replacementMetricsNet(m, inserted, removed, generated) ==
  [m EXCEPT !.totalInsertions = @ + inserted,
            !.totalDeletions = @ - removed,
            !.aiInsertions = IF generated THEN @ + 1 ELSE @]

\* metrics.totalInsertions += inserted; metrics.totalDeletions += removed; ...
replacementMetrics(m, inserted, removed, generated) ==
  [m EXCEPT !.totalInsertions = @ + inserted,
            !.totalDeletions = @ + removed,
            !.aiInsertions = IF generated THEN @ + 1 ELSE @]

\* the body of the loop over e.contentChanges for one sub-change c, on
\* st = [metrics, events, activity]
ApplyChange(v, st, c, t) ==
  LET inserted == insertedOf(c)
      removed == removedOf(c)
      act == Track(v, st.activity, c, t)
  IN  IF inserted > 0 /\ removed = 0
      THEN [ metrics |-> insertionMetrics(st.metrics, inserted, looksGenerated(c)),
             events |-> logEvent(st.events,
                                 [ type |-> IF looksGenerated(c) THEN "ai.accept"
                                            ELSE "insert",
                                   size |-> inserted ], t),
             activity |-> act ]
      ELSE IF removed > 0 /\ inserted = 0
      THEN [ metrics |-> deletionMetrics(st.metrics, removed),
             events |-> logEvent(st.events,
                                 [type |-> "delete", size |-> removed], t),
             activity |-> act ]
      ELSE IF removed > 0 /\ inserted > 0
      THEN [ metrics |-> replacementMetrics(st.metrics, inserted, removed,
                                            looksGenerated(c)),
             events |-> logEvent(st.events,
                                 [ type |-> IF looksGenerated(c) THEN "ai.replace"
                                            ELSE "replace",
                                   sizeInserted |-> inserted,
                                   sizeRemoved |-> removed ], t),
             activity |-> act ]
      ELSE [ metrics |-> st.metrics, events |-> st.events, activity |-> act ]

\* (mutant: the sub-changes taken last to first)
RECURSIVE ApplyChangesReversed(_, _, _, _)
ApplyChangesReversed(v, st, batch, t) ==
  IF batch = <<>> THEN st
  ELSE ApplyChange(v, ApplyChangesReversed(v, st, Tail(batch), t), Head(batch), t)

\* for (const change of e.contentChanges) ...
RECURSIVE ApplyChanges(_, _, _, _)
ApplyChanges(v, st, batch, t) ==
  IF batch = <<>> THEN st
  ELSE ApplyChanges(v, ApplyChange(v, st, Head(batch), t), Tail(batch), t)

\* e.contentChanges: up to n sub-changes drawn from changes
Batches(changes, n) == UNION { [1..k -> changes] : k \in 0..n }

\* the listener: metrics.lastChangeTs = Date.now(), the loop, updateStatus()
Edit(batch) ==
  /\ phase = "active"
  /\ quota.edits > 0
  /\ quota' = [quota EXCEPT !.edits = @ - 1]
  /\ input' = batch
  /\ LET st == ApplyChanges(variant,
                            [ metrics |-> [metrics EXCEPT !.lastChangeTs = now],
                              events |-> events, activity |-> activity ],
                            batch, now)
     IN  /\ events' = st.events
         /\ activity' = st.activity
         /\ Evaluate(st.metrics, st.activity)
  /\ UNCHANGED <<shellVars, variant, phase, now, assistMode, toggling, timerDue, probe>>

(***************************************************************************)
(* The focus listener, the timer and the clock                             *)
(***************************************************************************)
\* src/extension.js: if (!state.focused) { lastChangeTs = now - 120000; updateStatus() }
\* src/README.md:    if (!state.focused) lastChangeTs = now - 120000; updateStatus()
Focus(focused) ==
  /\ phase = "active"
  /\ quota.focus > 0
  /\ quota' = [quota EXCEPT !.focus = @ - 1]
  /\ IF focused
     THEN IF variant = "simple"
          THEN UNCHANGED <<metrics, lastUpdate, history, prompts, evalLog>>
          ELSE Evaluate(metrics, activity)
     ELSE Evaluate([metrics EXCEPT !.lastChangeTs = now - BLUR_IDLE_MS], activity)
  /\ UNCHANGED <<shellVars, variant, phase, now, events, assistMode, activity,
                 toggling, timerDue, input, probe>>

\* src/README.md: setInterval(updateStatus, 1000)
Tick ==
  /\ phase = "active"
  /\ timerDue.armed
  /\ now >= timerDue.due
  /\ timerDue' = [timerDue EXCEPT !.due = now + TICK_MS]
  /\ Evaluate(metrics, activity)
  /\ UNCHANGED <<shellVars, variant, phase, now, quota, events, assistMode, activity,
                 toggling, input, probe>>

\* the clock moves on once the timer callbacks that are due have run
AdvanceTime ==
  /\ phase = "active"
  /\ ~(timerDue.armed /\ now >= timerDue.due)
  /\ now + quota.step <= quota.until
  /\ now' = now + quota.step
  /\ UNCHANGED <<shellVars, variant, phase, quota, metrics, lastUpdate, history, events,
                 assistMode, activity, prompts, toggling, timerDue, input,
                 evalLog, probe>>

(***************************************************************************)
(* Commands and the answer to a nudge                                      *)
(***************************************************************************)
\* vibeflow.toggleAssist up to `await globalState.update(ASSIST_KEY, assistMode)`
ToggleAssist ==
  /\ phase = "active"
  /\ quota.cmds > 0
  /\ quota' = [quota EXCEPT !.cmds = @ - 1]
  /\ assistMode' = ~assistMode
  /\ toggling' = toggling + 1
  /\ UNCHANGED <<shellVars, variant, phase, now, metrics, lastUpdate, history, events,
                 activity, prompts, timerDue, input, evalLog, probe>>

\* ... and after it: logEvent({ type: "assist.toggle", enabled: assistMode })
ToggleAssistDone ==
  /\ toggling > 0
  /\ toggling' = toggling - 1
  /\ events' = logEvent(events,
                        [type |-> "assist.toggle", enabled |-> assistMode], now)
  /\ UNCHANGED <<shellVars, variant, phase, now, quota, metrics, lastUpdate, history,
                 assistMode, activity, prompts, timerDue, input, evalLog, probe>>

\* vibeflow.logAIReject
LogAIReject ==
  /\ phase = "active"
  /\ quota.cmds > 0
  /\ quota' = [quota EXCEPT !.cmds = @ - 1]
  /\ metrics' = [metrics EXCEPT !.aiRejections = @ + 1]
  /\ events' = logEvent(events, [type |-> "ai.reject"], now)
  /\ UNCHANGED <<shellVars, variant, phase, now, lastUpdate, history, assistMode, activity,
                 prompts, toggling, timerDue, input, evalLog, probe>>

\* what showInformationMessage resolves to: a button, or undefined on dismissal
Choices == {"Take Break", "Request Hint", "Ignore", "undefined"}

\* (mutant: a dismissal logged under a name of its own)
nudgeActionDismissed(choice) ==
  IF choice = "Take Break" THEN "break"
  ELSE IF choice = "Request Hint" THEN "hint"
  ELSE IF choice = "Ignore" THEN "ignored"
  ELSE "dismissed"

nudgeAction(choice) ==
  IF choice = "Take Break" THEN "break"
  ELSE IF choice = "Request Hint" THEN "hint"
  ELSE "ignored"

\* the .then(...) callback of the nudge prompt
AnswerNudge(choice) ==
  /\ prompts > 0
  /\ prompts' = prompts - 1
  /\ events' = logEvent(events,
                        [type |-> "nudge", action |-> nudgeAction(choice)], now)
  /\ UNCHANGED <<shellVars, variant, phase, now, quota, metrics, lastUpdate, history,
                 assistMode, activity, toggling, timerDue, input, evalLog, probe>>

(***************************************************************************)
(* vibeflow.reportMood and vibeflow.exportLogs                             *)
(***************************************************************************)
\* what showQuickPick resolves to: a mood, or undefined on dismissal
Picks == {"Happy", "Neutral", "Stuck", "undefined"}

\* vibeflow.reportMood up to `await showQuickPick(...)`
ReportMood ==
  /\ phase = "active"
  /\ quota.ui > 0
  /\ quota' = [quota EXCEPT !.ui = @ - 1]
  /\ picking' = picking + 1
  /\ UNCHANGED <<variant, phase, now, metrics, lastUpdate, history, events,
                 assistMode, activity, prompts, toggling, timerDue, input,
                 evalLog, probe, moods, recording, exporting, errors, escaped>>

\* ... from the pick to `await globalState.update(MOODS_KEY, moods)`
MoodPicked(pick) ==
  /\ picking > 0
  /\ picking' = picking - 1
  /\ IF pick # "undefined"
     THEN /\ moods' = Append(moods, [ts |-> now, mood |-> pick])
          /\ recording' = Append(recording, pick)
     ELSE UNCHANGED <<moods, recording>>
  /\ UNCHANGED <<variant, phase, now, quota, metrics, lastUpdate, history,
                 events, assistMode, activity, prompts, toggling, timerDue,
                 input, evalLog, probe, exporting, errors, escaped>>

\* ... and after it: logEvent({ type: "mood.report", mood: pick })
MoodRecorded ==
  /\ recording # <<>>
  /\ recording' = Tail(recording)
  /\ events' = logEvent(events,
                        [type |-> "mood.report", mood |-> Head(recording)], now)
  /\ UNCHANGED <<variant, phase, now, quota, metrics, lastUpdate, history,
                 assistMode, activity, prompts, toggling, timerDue, input,
                 evalLog, probe, moods, picking, exporting, errors, escaped>>

\* how an export ends: the save dialog is dismissed, the file is written, or
\* writeFile rejects
Outcomes == {"cancelled", "written", "failed"}

\* vibeflow.exportLogs up to `await showSaveDialog(...)`
ExportLogs ==
  /\ phase = "active"
  /\ quota.ui > 0
  /\ quota' = [quota EXCEPT !.ui = @ - 1]
  /\ exporting' = exporting + 1
  /\ UNCHANGED <<variant, phase, now, metrics, lastUpdate, history, events,
                 assistMode, activity, prompts, toggling, timerDue, input,
                 evalLog, probe, moods, picking, recording, errors, escaped>>

\* ... and after the dialog and `await writeFile(...)`: the write is caught in
\* src/extension.js (showErrorMessage) and is not in src/README.md
ExportSettled(outcome) ==
  /\ exporting > 0
  /\ exporting' = exporting - 1
  /\ events' = IF outcome = "written"
               THEN logEvent(events, [type |-> "export", path |-> "uri"], now)
               ELSE events
  /\ errors' = IF outcome = "failed" /\ variant = "simple"
               THEN errors + 1 ELSE errors
  /\ escaped' = IF outcome = "failed" /\ variant = "windowed"
                THEN escaped + 1 ELSE escaped
  /\ UNCHANGED <<variant, phase, now, quota, metrics, lastUpdate, history,
                 assistMode, activity, prompts, toggling, timerDue, input,
                 evalLog, probe, moods, picking, recording>>

\* a call of computeFlow() with Math.random() = k / RandDen
CallComputeFlow(k) ==
  /\ phase = "probe"
  /\ probe' = [ called |-> TRUE, rnd |-> k,
                flow |-> computeFlow(variant, metrics, activity, now, k) ]
  /\ UNCHANGED <<shellVars, variant, phase, now, quota, metrics, lastUpdate, history,
                 events, assistMode, activity, prompts, toggling, timerDue,
                 input, evalLog>>

\* the jitter that computeFlow of variant v adds for Math.random() = k / RandDen
Jitter(v, k) == IF v = "simple" THEN JitterSimple(k) ELSE JitterWindowed(k)

\* the milliseconds between two calls of computeFlow() made in the same second
ProbeDelays == {1, THROTTLE_MS - 1}

\* a second and last call of computeFlow(), dt milliseconds after the first
\* one, with nothing written in between and Math.random() held at a draw of
\* jitter 0
CallComputeFlowAgain(dt) ==
  /\ phase = "probe"
  /\ probe.called
  /\ Jitter(variant, probe.rnd) = 0
  /\ phase' = "probed"
  /\ now' = now + dt
  /\ probe' = probe @@ [ again |-> computeFlow(variant, metrics, activity,
                                                now + dt, probe.rnd) ]
  /\ UNCHANGED <<shellVars, variant, quota, metrics, lastUpdate, history, events,
                 assistMode, activity, prompts, toggling, timerDue, input,
                 evalLog>>

Next ==
  \/ \E k \in 0..(RandDen - 1) : CallComputeFlow(k)
  \/ \E dt \in ProbeDelays : CallComputeFlowAgain(dt)
  \/ Activate
  \/ \E batch \in Batches(quota.changes, quota.batch) : Edit(batch)
  \/ \E focused \in BOOLEAN : Focus(focused)
  \/ Tick
  \/ AdvanceTime
  \/ ToggleAssist
  \/ ToggleAssistDone
  \/ LogAIReject
  \/ \E choice \in Choices : AnswerNudge(choice)
  \/ ReportMood
  \/ \E pick \in Picks : MoodPicked(pick)
  \/ MoodRecorded
  \/ ExportLogs
  \/ \E outcome \in Outcomes : ExportSettled(outcome)

Spec == Init /\ [][Next]_vars

(***************************************************************************)
(* Sessions that start with a history at its cap, or one sample below it   *)
(***************************************************************************)
\* the samples of earlier sessions, one a second, the last one a minute ago
OldHistory(n) ==
  [i \in 1..n |-> [ts |-> T0 - WINDOW_MS - TICK_MS * (n - i), flow |-> i % 101]]

FullSessions ==
  { Session(1, 1, Changes, 0, 0, 0, RandDraws, THROTTLE_MS, THROTTLE_MS),
    Session(0, 0, {}, 1, 0, 0, RandDraws, MaxTime, TICK_MS),
    Session(0, 0, {}, 0, 1, 1, RandDraws, THROTTLE_MS, THROTTLE_MS) }

InitFull ==
  \E v \in Variants, a \in BOOLEAN, q \in FullSessions,
     n \in {HISTORY_CAP - 1, HISTORY_CAP} :
    Loaded(v, [ history |-> OldHistory(n),
                moods |-> <<[ts |-> T0 - WINDOW_MS, mood |-> "Neutral"]>>,
                events |-> <<>>, assist |-> a ], q)

SpecFull == (InitFull \/ InitProbe) /\ [][Next]_vars

(***************************************************************************)
(* Properties                                                              *)
(***************************************************************************)
Last(q) == q[Len(q)]

\* this step delivered an edit notification; input' holds its sub-changes
EditStep == quota'.edits = quota.edits - 1

\* this step evaluated the score in updateStatus
EvalStep == lastUpdate' # lastUpdate

\* the events this step appended
NewEvents == SubSeq(events', Len(events) + 1, Len(events'))

\* a sub-change as the claims read it: characters inserted, characters removed
Inserted(c) == IF c.text.present THEN c.text.len ELSE 0
Removed(c) == IF c.rangeLength.present THEN c.rangeLength.len ELSE 0
HasNewline(c) == c.text.present /\ c.text.nl
PureInsertion(c) == Inserted(c) > 0 /\ Removed(c) = 0
PureDeletion(c) == Removed(c) > 0 /\ Inserted(c) = 0
Replacement(c) == Removed(c) > 0 /\ Inserted(c) > 0
Effective(c) == Inserted(c) > 0 \/ Removed(c) > 0
HeuristicAI(c) == Inserted(c) > 40 \/ HasNewline(c)

\* the sub-changes of a notification that insert or remove something, and the
\* place among them of sub-change i
EffectiveOf(batch) == SelectSeq(batch, Effective)
EventIndex(batch, i) == Cardinality({j \in 1..i : Effective(batch[j])})

\* the characters removed by the pure deletions of a notification
RECURSIVE RemovedByDeletions(_)
RemovedByDeletions(batch) ==
  IF batch = <<>> THEN 0
  ELSE (IF PureDeletion(Head(batch)) THEN Removed(Head(batch)) ELSE 0)
       + RemovedByDeletions(Tail(batch))

\* the fractions x and y are the same number; the sum of terms is n / d
FEq(x, y) == x[1] * y[2] = y[1] * x[2]
SumIs(terms, n, d) ==
  /\ FloorSum([i \in DOMAIN terms |-> FScale(terms[i], d)]) = n
  /\ FloorSum([i \in DOMAIN terms |-> FScale(terms[i], -d)]) = -n

\* event ev is the classified event of sub-change c
EventMatches(ev, c) ==
  IF PureInsertion(c)
  THEN ev.type \in {"insert", "ai.accept"} /\ ev.size = Inserted(c)
  ELSE IF PureDeletion(c)
  THEN ev.type = "delete" /\ ev.size = Removed(c)
  ELSE /\ ev.type \in {"replace", "ai.replace"}
       /\ ev.sizeInserted = Inserted(c)
       /\ ev.sizeRemoved = Removed(c)

\* C1: computeFlow returns an integer in 0..100 in both implementations, and
\* so does every FlowSample that updateStatus appends to history.
C1_FlowInRange ==
  /\ probe.called => probe.flow \in 0..100
  /\ \A i \in DOMAIN history : history[i].flow \in 0..100

\* C1 witness: updateStatus has appended a sample whose raw score was negative
\* (blurred window, no activity) and a direct call has been clamped at 100.
C1_Witness ==
  /\ phase = "active"
  /\ variant = "windowed"
  /\ Len(history) >= 2
  /\ Last(history).flow = 0
  /\ RoundSum(RawWindowed(metrics, activity, Last(history).ts, 0)) < 0

\* C2: the history never holds more than 20,000 samples; an evaluation appends
\* its sample last and, when the history already holds 20,000, evicts the
\* oldest one and keeps the others in order.
C2_HistoryBounded ==
  /\ [](Len(history) <= HISTORY_CAP)
  /\ [][ /\ history' # history => EvalStep
         /\ EvalStep =>
              /\ Last(history').ts = now
              /\ history' = Append(IF Len(history) = HISTORY_CAP
                                   THEN Tail(history) ELSE history,
                                   Last(history')) ]_vars

\* C2 witness: a session that started with 20,000 samples has appended one:
\* the history still holds 20,000 and its first sample is the old second one.
C2_Witness ==
  /\ Len(history) = HISTORY_CAP
  /\ Len(evalLog) = 1
  /\ Last(history).ts = T0
  /\ history[1] = OldHistory(HISTORY_CAP)[2]

\* C3 as claimed (low means below 45): counting from consecutiveLow = 0, the
\* n-th of up to five consecutive evaluations made with assist mode on and a
\* score below 45 leaves consecutiveLow = n and shows no prompt for n < 5, and
\* the fifth shows the prompt and resets consecutiveLow to 0.
C3_FiveLowTicksNudge ==
  \A i \in DOMAIN evalLog : \A n \in 1..5 :
    ( /\ i + n - 1 <= Len(evalLog)
      /\ evalLog[i].before = 0
      /\ \A j \in i..(i + n - 1) : evalLog[j].assist /\ evalLog[j].flow < 45 )
    => /\ evalLog[i + n - 1].nudge = (n = 5)
       /\ evalLog[i + n - 1].low = (IF n = 5 THEN 0 ELSE n)

\* C3 on the implementation of src/README.md alone
C3_WindowedFiveLowTicksNudge == variant = "windowed" => C3_FiveLowTicksNudge

\* five assisted low evaluations in a row, counted from 0, the last one nudging
C3_Witness ==
  \E i \in DOMAIN evalLog :
    /\ i + 4 <= Len(evalLog)
    /\ evalLog[i].before = 0
    /\ \A j \in i..(i + 4) : evalLog[j].assist /\ evalLog[j].flow < 45
    /\ evalLog[i + 4].nudge

\* C4: while assist mode is off no step shows a nudge prompt, and an evaluation
\* whose score is below the low threshold adds one to consecutiveLow.
C4_NoNudgeWhenAssistOff ==
  [][ ~assistMode =>
        /\ prompts' <= prompts
        /\ (EvalStep /\ Last(history').flow < MidFlow(variant))
             => metrics'.consecutiveLow = metrics.consecutiveLow + 1 ]_vars

\* C4 witness: with assist mode off the counter has passed the nudge threshold
\* and no prompt was ever shown.
C4_Witness ==
  /\ ~assistMode
  /\ metrics.consecutiveLow > NUDGE_AFTER
  /\ prompts = 0
  /\ \A i \in DOMAIN evalLog : ~evalLog[i].assist /\ ~evalLog[i].nudge

\* C5: a sub-change that only inserts is logged as `ai.accept` exactly when it
\* inserts more than 40 characters or its text holds a newline, and as `insert`
\* otherwise; aiInsertions grows by one for each `ai.accept` and not otherwise.
C5_InsertionHeuristic ==
  [][ EditStep =>
        /\ \A i \in DOMAIN input' :
             PureInsertion(input'[i]) =>
               LET n == EventIndex(input', i)
               IN  /\ n <= Len(NewEvents)
                   /\ NewEvents[n].type = (IF HeuristicAI(input'[i])
                                           THEN "ai.accept" ELSE "insert")
        /\ (\A i \in DOMAIN input' : ~Replacement(input'[i])) =>
             metrics'.aiInsertions = metrics.aiInsertions
               + Cardinality({ i \in DOMAIN input' :
                                 PureInsertion(input'[i]) /\ HeuristicAI(input'[i]) })
    ]_vars

\* C5 witness: one notification inserted 41 characters, then 40, none with a
\* newline: the first was logged as ai.accept and the second as insert.
C5_Witness ==
  /\ Len(input) = 2
  /\ PureInsertion(input[1]) /\ Inserted(input[1]) = 41 /\ ~HasNewline(input[1])
  /\ PureInsertion(input[2]) /\ Inserted(input[2]) = 40 /\ ~HasNewline(input[2])
  /\ Len(events) = 2
  /\ events[1].type = "ai.accept"
  /\ events[2].type = "insert"
  /\ metrics.aiInsertions = 1

\* C6 as claimed: a sub-change that only removes is logged as `delete` and
\* undoCount grows by the number of characters removed.
C6_UndoCountByLength ==
  [][ EditStep =>
        /\ \A i \in DOMAIN input' :
             PureDeletion(input'[i]) =>
               LET n == EventIndex(input', i)
               IN  n <= Len(NewEvents) /\ NewEvents[n].type = "delete"
        /\ metrics'.undoCount = metrics.undoCount + RemovedByDeletions(input')
    ]_vars

\* C6 amended: a sub-change that only removes is logged as `delete` with the
\* removed length as its size, and undoCount grows by one per such sub-change,
\* whatever the removed length.
C6_UndoCountByOne ==
  [][ EditStep =>
        /\ \A i \in DOMAIN input' :
             PureDeletion(input'[i]) =>
               LET n == EventIndex(input', i)
               IN  /\ n <= Len(NewEvents)
                   /\ NewEvents[n].type = "delete"
                   /\ NewEvents[n].size = Removed(input'[i])
        /\ metrics'.undoCount = metrics.undoCount
             + Cardinality({i \in DOMAIN input' : PureDeletion(input'[i])})
        /\ metrics'.totalDeletions >= metrics.totalDeletions + RemovedByDeletions(input')
    ]_vars

\* C6 witness: a deletion of three characters was logged and counted once.
C6_Witness ==
  /\ Len(input) = 1
  /\ PureDeletion(input[1]) /\ Removed(input[1]) = 3
  /\ Len(events) = 1
  /\ events[1].type = "delete" /\ events[1].size = 3
  /\ metrics.undoCount = 1
  /\ metrics.totalDeletions = 3

\* C7 as claimed: a notification with k sub-changes appends exactly k events,
\* the i-th event being the one of the i-th sub-change.
C7_OneEventPerSubChange ==
  [][ EditStep =>
        /\ Len(NewEvents) = Len(input')
        /\ \A i \in DOMAIN NewEvents :
             i <= Len(input') /\ Effective(input'[i])
               => EventMatches(NewEvents[i], input'[i])
    ]_vars

\* C7 amended: a notification appends one event for each of its sub-changes
\* that inserts or removes at least one character, in the order of those
\* sub-changes, and none for a sub-change that does neither.
C7_OneEventPerEffectiveSubChange ==
  [][ EditStep =>
        /\ Len(NewEvents) = Len(EffectiveOf(input'))
        /\ \A i \in DOMAIN NewEvents :
             /\ EventMatches(NewEvents[i], EffectiveOf(input')[i])
             /\ NewEvents[i].ts = now
    ]_vars

\* C7 witness: a notification carried a deletion, then an insertion; its two
\* events are in the log in that order.
C7_Witness ==
  /\ Len(input) = 2
  /\ PureDeletion(input[1])
  /\ PureInsertion(input[2])
  /\ Len(events) = 2
  /\ events[1].type = "delete"
  /\ events[2].type = "insert"

\* C8: two successive evaluations are at least 1000 ms apart, and no step
\* taken less than 1000 ms after the last evaluation (so no call of
\* updateStatus made then) changes history, consecutiveLow or lastUpdate.
C8_OneEvaluationPerSecond ==
  /\ [](\A i \in DOMAIN evalLog :
          /\ i > 1 => evalLog[i].ts - evalLog[i - 1].ts >= 1000
          /\ history[Len(history) - Len(evalLog) + i].ts = evalLog[i].ts)
  /\ [][ now - lastUpdate < 1000 =>
           /\ history' = history
           /\ metrics'.consecutiveLow = metrics.consecutiveLow
           /\ lastUpdate' = lastUpdate ]_vars

\* C8 witness: an edit was delivered between two evaluations, less than a
\* second after the first one: its event is in the log, it left no sample.
C8_Witness ==
  /\ Len(evalLog) >= 2
  /\ Len(history) = Len(evalLog)
  /\ \E e \in DOMAIN events :
       /\ events[e].type \in {"insert", "ai.accept", "delete"}
       /\ events[e].ts > evalLog[1].ts
       /\ events[e].ts < evalLog[1].ts + 1000
       /\ events[e].ts < evalLog[2].ts

\* C9 as claimed, for a tick of one second: while the extension is active the
\* last evaluation is never older than one tick period, whether or not edit
\* and focus notifications arrive.
C9_EvaluatedEveryTick ==
  phase = "active" => now - lastUpdate <= TICK_MS

\* C9 on the implementation of src/README.md alone, the host never suspended
C9_WindowedEvaluatedEveryTick ==
  (variant = "windowed" /\ quota.step <= TICK_MS) => C9_EvaluatedEveryTick

\* C10 as claimed: the windowed computeFlow on totalInsertions = 100,
\* aiInsertions = 80, undoCount = 5, lastChangeTs = now and no activity has
\* keystroke term 0, rhythm bonus 0 and idle penalty 0, returns 54 when the
\* jitter is 0 and a score in 51..57 for every jitter.
C10_WindowedExample ==
  ( /\ probe.called
    /\ variant = "windowed"
    /\ metrics.totalInsertions = 100
    /\ metrics.aiInsertions = 80
    /\ metrics.undoCount = 5
    /\ metrics.lastChangeTs = now
    /\ activity = <<>> )
  => /\ FEq(keystrokeScore(Recent(activity, now), now), FInt(0))
     /\ FEq(rhythmBonus(Recent(activity, now)), FInt(0))
     /\ FEq(idleDecay(Recent(activity, now), metrics, now), FInt(0))
     /\ SumIs(metricScore(metrics), 107, 2)
     /\ probe.flow \in 51..57
     /\ (JitterWindowed(probe.rnd) = 0 => probe.flow = 54)

\* C11 as claimed: two calls of computeFlow made less than 1000 ms apart on
\* the same metrics and the same activity, with the jitter at 0, return the
\* same score.
C11_SameSecondSameScore ==
  (phase = "probed" /\ Jitter(variant, probe.rnd) = 0)
    => probe.again = probe.flow

\* the `nudge` events in the log, the nudges fired so far, and the action the
\* claim gives for each answer to the prompt
NudgeEvents == Cardinality({i \in DOMAIN events : events[i].type = "nudge"})
NudgesFired == Cardinality({i \in DOMAIN evalLog : evalLog[i].nudge})
Buttons == {"Take Break", "Request Hint", "Ignore"}
ClaimedAction(answer) ==
  IF answer = "Take Break" THEN "break"
  ELSE IF answer = "Request Hint" THEN "hint"
  ELSE "ignored"

\* C12: the prompt of a nudge offers the three buttons Take Break, Request
\* Hint and Ignore; a nudge fires only in an evaluation and leaves
\* consecutiveLow at 0; the answer to a prompt (a button, or none on a
\* dismissal) appends exactly one `nudge` event with action break, hint or
\* ignored as claimed, and nothing else appends one: the `nudge` events and
\* the unanswered prompts together are always as many as the nudges fired.
C12_NudgeResolvedOnce ==
  /\ Choices \ {"undefined"} = Buttons
  /\ [](NudgeEvents + prompts = NudgesFired)
  /\ [][ /\ prompts' > prompts =>
              /\ prompts' = prompts + 1
              /\ EvalStep
              /\ metrics'.consecutiveLow = 0
         /\ \A answer \in Buttons \cup {"undefined"} :
              AnswerNudge(answer) =>
                /\ events' = Append(events, Last(events'))
                /\ Last(events').type = "nudge"
                /\ Last(events').action = ClaimedAction(answer)
                /\ Last(events').ts = now
         /\ Len(events') > Len(events) /\ Last(events').type = "nudge" =>
              /\ prompts' = prompts - 1
              /\ Len(events') = Len(events) + 1 ]_vars

\* C12 witness: a nudge has fired and its prompt was answered with Request
\* Hint: the log ends with its one `nudge` event, no prompt is left.
C12_Witness ==
  /\ NudgesFired = 1
  /\ prompts = 0
  /\ NudgeEvents = 1
  /\ Last(events).type = "nudge"
  /\ Last(events).action = "hint"
  /\ metrics.consecutiveLow = 0

\* C13 as claimed: a loss of focus sets lastChangeTs to now - 120,000; only an
\* edit or another loss of focus writes lastChangeTs after that; and every
\* evaluation made while lastChangeTs is 120,000 ms or more behind the clock
\* works with an idle time of at least 120,000 ms.
C13_IdleAfterBlur ==
  [][ /\ Focus(FALSE) => metrics'.lastChangeTs = now - 120000
      /\ metrics'.lastChangeTs # metrics.lastChangeTs => EditStep \/ Focus(FALSE)
      /\ (EvalStep /\ phase' = "active" /\ now - metrics'.lastChangeTs >= 120000)
           => idleTime(variant, metrics', activity', now) >= 120000 ]_vars

\* C13 on the implementation of src/extension.js alone
C13_SimpleIdleAfterBlur ==
  [][ variant = "simple" =>
        /\ Focus(FALSE) => metrics'.lastChangeTs = now - 120000
        /\ metrics'.lastChangeTs # metrics.lastChangeTs => EditStep \/ Focus(FALSE)
        /\ (EvalStep /\ phase' = "active" /\ now - metrics'.lastChangeTs >= 120000)
             => idleTime(variant, metrics', activity', now) >= 120000 ]_vars

\* C14 as claimed: when the write of an export fails, an error message is
\* shown, nothing leaves the command handler as an exception, the export is
\* over (no retry), no event is appended and history, moods and events are
\* left as they were.
C14_ExportFailureHandled ==
  [][ ExportSettled("failed") =>
        /\ errors' = errors + 1
        /\ escaped' = escaped
        /\ exporting' = exporting - 1
        /\ events' = events
        /\ history' = history
        /\ moods' = moods ]_vars

\* C14 on the implementation of src/extension.js alone
C14_SimpleExportFailureHandled ==
  [][ (variant = "simple" /\ ExportSettled("failed")) =>
        /\ errors' = errors + 1
        /\ escaped' = escaped
        /\ exporting' = exporting - 1
        /\ events' = events
        /\ history' = history
        /\ moods' = moods ]_vars

\* a failed export of the windowed implementation has left its handler
C14_Witness == variant = "windowed" /\ escaped = 1 /\ errors = 0 /\ exporting = 0

\* a sub-change with its missing parts filled in as empty ones
Zeroed(c) ==
  Change(IF c.text.present THEN c.text ELSE Text(0, FALSE),
         IF c.rangeLength.present THEN c.rangeLength ELSE Range(0))

\* the five counters of the edit listener and the commands
Counters(m) ==
  <<m.totalInsertions, m.totalDeletions, m.aiInsertions, m.aiRejections, m.undoCount>>

\* what the loop of the edit listener makes of batch in the current state
LoopResult(batch) ==
  ApplyChanges(variant,
               [ metrics |-> [metrics EXCEPT !.lastChangeTs = now],
                 events |-> events, activity |-> activity ],
               batch, now)

\* C15: a sub-change without text or without rangeLength is handled as the same
\* sub-change with an empty text or a rangeLength of 0, and no sub-change makes
\* the loop body throw; the sub-changes that insert nothing and remove nothing
\* change none of totalInsertions, totalDeletions, aiInsertions, aiRejections
\* and undoCount (the counters move as if those sub-changes were not there).
C15_AbsentPartsAreZero ==
  [][ EditStep =>
        /\ \A i \in DOMAIN input' : ~raises(variant, input'[i])
        /\ LET filled == LoopResult([i \in DOMAIN input' |-> Zeroed(input'[i])])
           IN  /\ events' = filled.events
               /\ activity' = filled.activity
               /\ Counters(metrics') = Counters(filled.metrics)
        /\ Counters(metrics') = Counters(LoopResult(EffectiveOf(input')).metrics)
        /\ (\A i \in DOMAIN input' : ~Effective(input'[i])) =>
             /\ Counters(metrics') = Counters(metrics)
             /\ events' = events
    ]_vars

\* C15 witness: a notification of a sub-change without text and range and a
\* sub-change without text that removes three characters left one `delete`
\* event of size 3 and one undo.
C15_Witness ==
  /\ input = <<Change(NoText, NoRange), Change(NoText, Range(3))>>
  /\ quota.edits = 0
  /\ Len(events) = 1
  /\ events[1].type = "delete" /\ events[1].size = 3
  /\ Counters(metrics) = <<0, 3, 0, 0, 1>>

\* none of the five counters is lower after this step
CountersGrow ==
  \A i \in 1..5 : Counters(metrics')[i] >= Counters(metrics)[i]

\* C16 as claimed: no step decreases totalInsertions, totalDeletions,
\* aiInsertions, aiRejections, undoCount or consecutiveLow.
C16_CountersMonotone ==
  [][ CountersGrow /\ metrics'.consecutiveLow >= metrics.consecutiveLow ]_vars

\* C16 amended: no step decreases totalInsertions, totalDeletions,
\* aiInsertions, aiRejections or undoCount; consecutiveLow changes only in an
\* evaluation, which adds one to it on a low reading and sets it back to 0 on a
\* reading that is not low or when the nudge fires.
C16_CountersGrowLowResets ==
  [][ /\ CountersGrow
      /\ metrics'.consecutiveLow # metrics.consecutiveLow => EvalStep
      /\ EvalStep =>
           LET e == Last(evalLog')
               mid == IF variant = "simple" THEN MID_FLOW_SIMPLE ELSE MID_FLOW_WINDOWED
           IN  metrics'.consecutiveLow =
                 IF e.flow >= mid \/ e.nudge THEN 0 ELSE metrics.consecutiveLow + 1
    ]_vars

\* C16 witness: a rejection was counted, and the nudge fired on the fifth low
\* reading and set consecutiveLow back to 0.
C16_Witness ==
  /\ metrics.aiRejections = 1
  /\ NudgesFired = 1
  /\ Last(evalLog).nudge /\ Last(evalLog).before = NUDGE_AFTER - 1
  /\ metrics.consecutiveLow = 0

\* C17 as claimed: in every state of the running extension the activity holds
\* no entry more than five minutes older than the current time.
C17_ActivityWithinFiveMinutes ==
  phase = "active" =>
    \A i \in DOMAIN activity : now - activity[i].ts <= ACTIVITY_KEEP_MS

\* C17 right after an edit notification of at least one sub-change, where the
\* loop of the listener prunes
C17_PrunedByEdit ==
  [][ (EditStep /\ input' # <<>>) =>
        \A i \in DOMAIN activity' : now - activity'[i].ts <= ACTIVITY_KEEP_MS ]_vars

\* an insertion is still in the activity six minutes later, after a tick
C17_Witness ==
  /\ variant = "windowed"
  /\ activity # <<>>
  /\ now - activity[1].ts > ACTIVITY_KEEP_MS
  /\ lastUpdate = now

\* C18: a prompt that waits for its answer holds nothing up. Whatever the
\* number of prompts waiting, an edit notification appends its events and
\* updates the metrics as the loop of the listener says, and an evaluation
\* fires a further nudge exactly when assist mode is on and this is the fifth
\* low reading in a row. The log only grows at its end, and a `nudge` event is
\* appended only by the answer to a prompt, stamped with the time of the
\* answer, so after the events of the edits made since the prompt.
C18_PromptNeverBlocks ==
  [][ /\ EditStep =>
          /\ events' = LoopResult(input').events
          /\ activity' = LoopResult(input').activity
          /\ Counters(metrics') = Counters(LoopResult(input').metrics)
          /\ metrics'.lastChangeTs = now
      /\ EvalStep =>
          LET e == Last(evalLog')
          IN  /\ e.nudge <=> ( /\ assistMode
                               /\ e.flow < MidFlow(variant)
                               /\ metrics.consecutiveLow + 1 >= NUDGE_AFTER )
              /\ prompts' = IF e.nudge THEN prompts + 1 ELSE prompts
      /\ Len(events') >= Len(events)
      /\ SubSeq(events', 1, Len(events)) = events
      /\ (\E i \in DOMAIN NewEvents : NewEvents[i].type = "nudge") =>
           /\ prompts > 0
           /\ prompts' = prompts - 1
           /\ Len(NewEvents) = 1
           /\ NewEvents[1].ts = now
    ]_vars

\* C18 witness: the first nudge fired, the second fired five readings later
\* while the first prompt was waiting, a deletion made after that was logged,
\* and then the answer to one prompt was logged behind it.
C18_Witness ==
  /\ NudgesFired = 2
  /\ prompts = 1
  /\ Len(events) = 2
  /\ events[1].type = "delete"
  /\ events[2].type = "nudge"
  /\ \E i \in DOMAIN evalLog : evalLog[i].nudge /\ evalLog[i].ts < events[1].ts
  /\ metrics.undoCount = 1

\* C19 as claimed: the jitter that computeFlow adds is within -3..3 and its
\* opposite is a value the jitter can take too.
C19_JitterSymmetric ==
  probe.called =>
    LET j == Jitter(variant, probe.rnd)
    IN  /\ j \in -3..3
        /\ \E k \in 0..(RandDen - 1) : Jitter(variant, k) = -j

\* C19 on the bound alone, for the implementation of src/README.md
C19_WindowedJitterBounded ==
  (probe.called /\ variant = "windowed") => Jitter(variant, probe.rnd) \in -3..3

\* the windowed computeFlow was called with the lowest draw, jitter -3
C19_Witness ==
  /\ probe.called
  /\ variant = "windowed"
  /\ Jitter(variant, probe.rnd) = -3
  /\ \A k \in 0..(RandDen - 1) : Jitter(variant, k) # 3

\* C20 as claimed: after every step of the windowed implementation the idle
\* time computeFlow works with is now minus the later of the timestamp of the
\* last activity entry in the window and lastChangeTs, the idle penalty is
\* min(50, idle / 1000), and right after an edit notification the idle time
\* is 0.
C20_IdleSinceLatest ==
  [][ variant = "windowed" =>
        LET recent == Recent(activity', now')
            latest == Max(IF recent # <<>> THEN Last(recent).ts ELSE 0,
                          metrics'.lastChangeTs)
            idle == idleTime(variant, metrics', activity', now')
        IN  /\ idle = now' - latest
            /\ FEq(idleDecay(recent, metrics', now'), FMin(FInt(50), <<idle, 1000>>))
            /\ EditStep => idle = 0
    ]_vars

\* C20 on the penalty alone: min(50, idle / 1000) of the idle time the code
\* works with
C20_PenaltyCapped ==
  [][ variant = "windowed" =>
        FEq(idleDecay(Recent(activity', now'), metrics', now'),
            FMin(FInt(50), <<idleTime(variant, metrics', activity', now'), 1000>>))
    ]_vars

\* a deletion was just evaluated while the window holds an earlier insertion
C20_Witness ==
  /\ variant = "windowed"
  /\ phase = "active"
  /\ events # <<>> /\ Last(events).type = "delete" /\ Last(events).ts = now
  /\ lastUpdate = now
  /\ metrics.lastChangeTs = now
  /\ Recent(activity, now) # <<>>
  /\ idleTime(variant, metrics, activity, now) > 0

\* the sum of F over the sub-changes of a notification that satisfy P
RECURSIVE SumOver(_, _, _)
SumOver(F(_), P(_), batch) ==
  IF batch = <<>> THEN 0
  ELSE (IF P(Head(batch)) THEN F(Head(batch)) ELSE 0) + SumOver(F, P, Tail(batch))

Inserts(c) == Inserted(c) > 0
Removes(c) == Removed(c) > 0
One(c) == 1
GeneratedInsert(c) == Inserted(c) > 0 /\ HeuristicAI(c)

\* C21: a sub-change that removes and inserts is logged as `ai.replace` when
\* it inserts more than 40 characters or its text holds a newline and as
\* `replace` otherwise, with the inserted and the removed length; over a
\* notification aiInsertions grows by one for each sub-change logged as
\* ai.accept or ai.replace, undoCount by one for each pure deletion and by
\* nothing for a replacement, totalInsertions by the inserted and
\* totalDeletions by the removed lengths.
C21_ReplaceHeuristic ==
  [][ EditStep =>
        /\ \A i \in DOMAIN input' :
             Replacement(input'[i]) =>
               LET n == EventIndex(input', i)
               IN  /\ n <= Len(NewEvents)
                   /\ NewEvents[n].type = (IF HeuristicAI(input'[i])
                                           THEN "ai.replace" ELSE "replace")
                   /\ NewEvents[n].sizeInserted = Inserted(input'[i])
                   /\ NewEvents[n].sizeRemoved = Removed(input'[i])
        /\ metrics'.aiInsertions =
             metrics.aiInsertions + SumOver(One, GeneratedInsert, input')
        /\ metrics'.undoCount = metrics.undoCount + SumOver(One, PureDeletion, input')
        /\ metrics'.totalInsertions =
             metrics.totalInsertions + SumOver(Inserted, Inserts, input')
        /\ metrics'.totalDeletions =
             metrics.totalDeletions + SumOver(Removed, Removes, input')
    ]_vars

\* C21 witness: one notification replaced 3 characters by 5 with a line break
\* and 3 characters by 40: logged as ai.replace and replace, one AI insertion,
\* no undo.
C21_Witness ==
  /\ input = <<Change(Text(5, TRUE), Range(3)), Change(Text(AI_SIZE, FALSE), Range(3))>>
  /\ Len(events) = 2
  /\ events[1].type = "ai.replace" /\ events[2].type = "replace"
  /\ Counters(metrics) = <<5 + AI_SIZE, 6, 1, 0, 0>>

\* the evaluations i..j that gave a score below the low threshold
LowsIn(i, j) ==
  Cardinality({k \in i..j : evalLog[k].flow < MidFlow(variant)})

\* C22: between two nudges of a session, counting from the evaluation after
\* the first to the evaluation that fires the second, at least five
\* evaluations gave a low score, and the two are at least five seconds apart;
\* after a nudge consecutiveLow never exceeds the number of low scores since.
C22_NudgesFiveLowsApart ==
  \A i \in DOMAIN evalLog :
    evalLog[i].nudge =>
      \A j \in (i + 1)..Len(evalLog) :
        /\ evalLog[j].low <= LowsIn(i + 1, j)
        /\ evalLog[j].nudge =>
             /\ LowsIn(i + 1, j) >= NUDGE_AFTER
             /\ evalLog[j].ts - evalLog[i].ts >= NUDGE_AFTER * THROTTLE_MS

\* C22 witness: two nudges fired, the second on the fifth low reading after
\* the first, five seconds later.
C22_Witness ==
  \E i, j \in DOMAIN evalLog :
    /\ j = i + NUDGE_AFTER
    /\ evalLog[i].nudge /\ evalLog[j].nudge
    /\ LowsIn(i + 1, j) = NUDGE_AFTER
    /\ evalLog[j].ts - evalLog[i].ts = NUDGE_AFTER * THROTTLE_MS

\* C23: consecutiveLow is never negative, and an evaluation made with assist
\* mode on leaves it in 0..4, whatever it was before.
C23_LowCountBelowFive ==
  /\ metrics.consecutiveLow >= 0
  /\ \A i \in DOMAIN evalLog :
       /\ evalLog[i].low >= 0
       /\ evalLog[i].assist => evalLog[i].low \in 0..(NUDGE_AFTER - 1)
  /\ (evalLog # <<>> /\ lastUpdate = Last(evalLog).ts) =>
       metrics.consecutiveLow = Last(evalLog).low

\* C23 witness: five or more low readings were counted with assist mode off,
\* assist mode was switched on, and the next evaluation, low again, fired the
\* nudge and left consecutiveLow at 0.
C23_Witness ==
  /\ Len(evalLog) >= 2
  /\ ~evalLog[Len(evalLog) - 1].assist
  /\ Last(evalLog).assist
  /\ Last(evalLog).before >= NUDGE_AFTER
  /\ Last(evalLog).nudge
  /\ metrics.consecutiveLow = 0

\* C24: aiInsertions never exceeds totalInsertions, so that the accept rate
\* aiInsertions / max(1, totalInsertions) is at most 1 and equal to its
\* min(1, ...); no step adds more to aiInsertions than to totalInsertions.
C24_AiWithinTotal ==
  /\ [](/\ metrics.aiInsertions <= metrics.totalInsertions
        /\ FEq(FMin(FInt(1), <<metrics.aiInsertions, Max(1, metrics.totalInsertions)>>),
               <<metrics.aiInsertions, Max(1, metrics.totalInsertions)>>))
  /\ [][ metrics'.totalInsertions - metrics.totalInsertions
           >= metrics'.aiInsertions - metrics.aiInsertions ]_vars

\* C24 witness: two line breaks typed, each one character taken as generated:
\* aiInsertions has caught up with totalInsertions and the accept rate is 1.
C24_Witness ==
  /\ phase = "active"
  /\ metrics.aiInsertions = 2
  /\ metrics.totalInsertions = 2
  /\ Len(events) = 2 /\ Last(events).type = "ai.accept" /\ Last(events).size = 1

\* the events appended since activation, and what the claim reads in them
SinceActivation == SelectSeq(events, LAMBDA e : e.ts >= T0)
IsInsertEvent(e) == e.type \in {"insert", "ai.accept"}
IsReplaceEvent(e) == e.type \in {"replace", "ai.replace"}
IsDeleteEvent(e) == e.type = "delete"
IsGeneratedEvent(e) == e.type \in {"ai.accept", "ai.replace"}
IsRejectEvent(e) == e.type = "ai.reject"
SizeOf(e) == e.size
SizeInsertedOf(e) == e.sizeInserted
SizeRemovedOf(e) == e.sizeRemoved

\* C25: in every state of a session the counters are what the events appended
\* since activation add up to: totalInsertions the sizes of the insert and
\* ai.accept events plus the inserted sizes of the replace and ai.replace
\* events, totalDeletions the sizes of the delete events plus the removed
\* sizes of the replace and ai.replace events, aiInsertions the number of
\* ai.accept and ai.replace events, undoCount the number of delete events and
\* aiRejections the number of ai.reject events.
C25_MetricsMatchEvents ==
  phase \in {"loading", "active"} =>
    LET evs == SinceActivation
    IN  /\ metrics.totalInsertions = SumOver(SizeOf, IsInsertEvent, evs)
                                       + SumOver(SizeInsertedOf, IsReplaceEvent, evs)
        /\ metrics.totalDeletions = SumOver(SizeOf, IsDeleteEvent, evs)
                                      + SumOver(SizeRemovedOf, IsReplaceEvent, evs)
        /\ metrics.aiInsertions = SumOver(One, IsGeneratedEvent, evs)
        /\ metrics.undoCount = SumOver(One, IsDeleteEvent, evs)
        /\ metrics.aiRejections = SumOver(One, IsRejectEvent, evs)

\* C25 witness: one notification replaced 3 characters by 41 and deleted 3
\* more: the two events add up to the counters.
C25_Witness ==
  /\ phase = "active"
  /\ Len(events) = 2
  /\ events[1].type = "ai.replace" /\ events[1].sizeInserted = AI_SIZE + 1
  /\ events[2].type = "delete" /\ events[2].size = 3
  /\ Counters(metrics) = <<AI_SIZE + 1, 6, 1, 0, 1>>

====
